---- MODULE Spec2Model ----
(***************************************************************************)
(* Push Button Start: the run-state machine of the control loop, its       *)
(* enablement gate, the relay driver and the LED brightness driver.        *)
(*                                                                         *)
(* Two source files are modelled:                                          *)
(*   src/push_start.ino       v1.0, kill switch only           build "v1"  *)
(*   src/unnamed/part_000     v2.0, NFC_KILL_SWITCH 0          build "v2"  *)
(*                            v2.0, NFC_KILL_SWITCH 1       build "v2nfc"  *)
(* One step of the model is one pass through loop().                       *)
(***************************************************************************)
EXTENDS Integers, Sequences, FiniteSets, TLC

VARIABLES
  build,                \* which source / compile-time configuration runs
  halted,               \* setup() never returned (while (1);)
  runState,             \* sysState runState
  previousButtonState,  \* int previousButtonState (a pin level)
  pressTime,            \* long pressTime
  brightness,           \* int brightness
  fadeAmount,           \* int fadeAmount
  tick,                 \* unsigned int tick
  relay,                \* levels last written to RELAY_ACC, RELAY_IGN, RELAY_START
  now,                  \* the value millis() returns in the current cycle
  enabled,              \* what the gate returned in the most recent cycle
  safeRead,             \* level of SAFE_SWITCH read in the most recent cycle,
                        \* "none" when that cycle did not read it
  warned,               \* the most recent cycle printed "WARNING: Unsafe to Start"
  relayLog,             \* the patterns setRelayState() wrote in the most recent cycle
  settleAfter,          \* number of setRelayState() calls the most recent cycle made
                        \* before its delay(500); 0 when it had no such delay
  blocked,              \* ms the most recent cycle spent in delay() after the point
                        \* where it samples the button and reads millis()
  nfcUids,              \* the configured allow-list (byte NFC_UIDS[][7])
  nfcRead,              \* what the token read of the most recent cycle delivered,
                        \* and whether that cycle read at all
  scene                 \* the scripted session: n, the number of gestures already
                        \* made, and t0, when the current press began; n stays 0
                        \* when the inputs are free

vars == << build, halted, runState, previousButtonState, pressTime, brightness,
           fadeAmount, tick, relay, now, enabled, safeRead, warned,
           relayLog, settleAfter, blocked, nfcUids, nfcRead, scene >>

(***************************************************************************)
(* Bounds of the model                                                     *)
(***************************************************************************)
\* millis() is followed up to this value (far below its 2^32 wrap)
MaxNow == 5500
\* width of the unsigned tick counter in the model
TickBits == 4

\* time between the millis() readings of two consecutive cycles
Steps == {500, 1000}

(***************************************************************************)
(* Program constants                                                       *)
(***************************************************************************)
HOLD_MS == 1000
SETTLE_MS == 500
CHIME_MS == 250
LOOP_DELAY == 30
FLASH_DELAY == 10
FADE_AMOUNT == 5
PWM_MAX == 255

Builds == {"v1", "v2", "v2nfc"}
Levels == {"HIGH", "LOW"}
Not(level) == IF level = "HIGH" THEN "LOW" ELSE "HIGH"

DISABLED == "DISABLED"
OFF == "OFF"
ACC == "ACC"
START == "START"
RUN == "RUN"
sysState == {DISABLED, OFF, ACC, START, RUN}

PUSH_BTN_PRESS == "HIGH"
SAFE_SWITCH_ENB == "HIGH"

\* level that energizes a relay: v2 #define RELAY_ON HIGH, v1 writes LOW
RELAY_ON == IF build = "v1" THEN "LOW" ELSE "HIGH"
RELAY_OFF == Not(RELAY_ON)

RelayPins == {"RELAY_ACC", "RELAY_IGN", "RELAY_START"}

(***************************************************************************)
(* Token reader and allow-list (NFC build)                                 *)
(***************************************************************************)
ZeroUid == << 0, 0, 0, 0, 0, 0, 0 >>
\* byte NFC_UIDS[][7]: six initialisers each, the seventh byte is zero
NFC_UIDS == << << 105, 175, 236, 194, 0, 0, 0 >>,
               << 121, 90, 19, 177, 0, 0, 0 >> >>

\* what readPassiveTargetID can deliver: success flag, identifier, its length
Reads == { [success |-> FALSE, id |-> << >>],
           [success |-> TRUE, id |-> << 105, 175, 236, 194 >>],
           [success |-> TRUE, id |-> << 4, 175, 236, 194 >>] }

\* the uid buffer after the read: zero-filled, then the identifier's bytes
UidBuffer(rd) ==
  [i \in 1..7 |-> IF rd.success /\ i <= Len(rd.id) THEN rd.id[i] ELSE ZeroUid[i]]

RECURSIVE checkUidFrom(_, _, _, _)
checkUidFrom(knownUid, uid, uidLength, i) ==
  IF i > uidLength THEN TRUE
  ELSE IF knownUid[i] # uid[i] THEN FALSE
  ELSE checkUidFrom(knownUid, uid, uidLength, i + 1)

checkUid(knownUid, uid, uidLength) == checkUidFrom(knownUid, uid, uidLength, 1)

\* the loop over NFC_UIDS, comparing sizeof(NFC_UIDS[i]) = 7 bytes
FoundUid(rd) ==
  \E i \in 1..Len(nfcUids) : checkUid(nfcUids[i], UidBuffer(rd), 7)

(***************************************************************************)
(* Enablement gate                                                         *)
(***************************************************************************)
\* variant: the NFC gate without its "already started" early return
systemEnabledNoLatch(rs, src) ==
  IF build = "v2nfc" THEN FoundUid(src) ELSE src = "HIGH"

\* src is what the enablement source delivers in this cycle: the level of
\* KILL_SWITCH, or in the NFC build the result of the token read
systemEnabled(rs, src) ==
  IF build = "v2nfc"
  THEN IF rs # DISABLED /\ rs # OFF THEN TRUE ELSE FoundUid(src)
  ELSE src = "HIGH"

EnablementSources == IF build = "v2nfc" THEN Reads ELSE Levels

\* the token read happens only past the early return of systemEnabled()
NotRead == [read |-> FALSE, success |-> FALSE, id |-> << >>]
TokenRead(rs, src) ==
  IF build = "v2nfc" /\ (rs = DISABLED \/ rs = OFF)
  THEN [read |-> TRUE, success |-> src.success, id |-> src.id]
  ELSE NotRead

(***************************************************************************)
(* Relay driver                                                            *)
(***************************************************************************)
RelayPattern(acc, ign, start) ==
  [p \in RelayPins |-> CASE p = "RELAY_ACC" -> acc
                         [] p = "RELAY_IGN" -> ign
                         [] p = "RELAY_START" -> start]

\* variant: START as the function's own comment has it (ACC On, IGN On)
setRelayStateAsCommented(rs) ==
  CASE rs \in {DISABLED, OFF} -> RelayPattern(RELAY_OFF, RELAY_OFF, RELAY_OFF)
    [] rs = ACC -> RelayPattern(RELAY_ON, RELAY_OFF, RELAY_OFF)
    [] rs = START -> RelayPattern(RELAY_ON, RELAY_ON, RELAY_OFF)
    [] rs = RUN -> RelayPattern(RELAY_OFF, RELAY_ON, RELAY_OFF)

setRelayState(rs) ==
  CASE rs \in {DISABLED, OFF} -> RelayPattern(RELAY_OFF, RELAY_OFF, RELAY_OFF)
    [] rs = ACC -> RelayPattern(RELAY_ON, RELAY_OFF, RELAY_OFF)
    [] rs = START -> RelayPattern(RELAY_OFF, RELAY_ON, RELAY_ON)
    [] rs = RUN -> RelayPattern(RELAY_OFF, RELAY_ON, RELAY_OFF)

Energized(p) == relay[p] = RELAY_ON

\* every case of setRelayState() writes the three pins in this order
PinOrder == << "RELAY_ACC", "RELAY_IGN", "RELAY_START" >>

\* the pins after each of the three digitalWrite() calls of one setRelayState()
\* that starts from the pins r and writes the pattern pat
WriteSteps(r, pat) ==
  [i \in 1..3 |->
    [q \in RelayPins |-> IF \E j \in 1..i : PinOrder[j] = q THEN pat[q] ELSE r[q]]]

\* the pins after every digitalWrite() of a cycle whose setRelayState() calls
\* wrote the patterns of log, in order
RECURSIVE PinTrace(_, _)
PinTrace(r, log) ==
  IF log = << >>
  THEN << >>
  ELSE WriteSteps(r, Head(log)) \o PinTrace(Head(log), Tail(log))

(***************************************************************************)
(* LED brightness driver                                                   *)
(***************************************************************************)
TickMod == 2 ^ TickBits

Toggle(b) == IF b > 0 THEN 0 ELSE PWM_MAX

\* variant: case OFF without the two checks
FadeUnclamped(b, f) == b

\* case OFF: the clamp is "if ... else if" in v2 and two separate ifs in v1
FadeClamp(b, f) ==
  IF build = "v1"
  THEN LET c == IF b + f > PWM_MAX THEN PWM_MAX ELSE b
       IN  IF c + f < 0 THEN 0 ELSE c
  ELSE IF b + f > PWM_MAX THEN PWM_MAX
       ELSE IF b + f < 0 THEN 0
       ELSE b

FadeReverse(b, f) == IF b <= 0 \/ b >= PWM_MAX THEN -f ELSE f

setLedBrigtness(rs, b, f, t) ==
  CASE rs = DISABLED -> [brightness |-> 0, fadeAmount |-> f, tick |-> t]
    [] rs = OFF ->
         LET c == FadeClamp(b + f, f)
         IN  [brightness |-> c, fadeAmount |-> FadeReverse(c, f), tick |-> t]
    [] rs = ACC ->
         [brightness |-> IF t % FLASH_DELAY = 0 THEN Toggle(b) ELSE b,
          fadeAmount |-> f,
          tick |-> (t + 1) % TickMod]
    [] rs = START -> [brightness |-> Toggle(b), fadeAmount |-> f, tick |-> t]
    [] rs = RUN -> [brightness |-> PWM_MAX, fadeAmount |-> f, tick |-> t]

(***************************************************************************)
(* The run-state machine inside loop()                                     *)
(***************************************************************************)
\* variant: the comparison made inclusive
HeldAtLeastHold(t, p) == t - p >= HOLD_MS

\* variant: the press time not subtracted
HeldSinceBoot(t, p) == t > HOLD_MS

\* millis() - pressTime > HOLD_MS
HeldOverHold(t, p) == t - p > HOLD_MS

\* variant: the transitions made on the pressed edge
IsReleasedInverted(btn) == btn = PUSH_BTN_PRESS

\* the button level that counts as released
IsReleased(btn) ==
  IF build = "v1" THEN btn = "LOW" ELSE btn # PUSH_BTN_PRESS

\* the button level that counts as pressed in the "else if" of the edge test
IsPressed(btn) ==
  IF build = "v1" THEN btn = "HIGH" ELSE btn = PUSH_BTN_PRESS

\* bool safe = ...
SafeToStart(sf) ==
  IF build = "v1" THEN sf = "HIGH" ELSE sf # SAFE_SWITCH_ENB

\* variant: RUN to ACC with no OFF pattern and no settle delay in between
ReleasedRunDirect(t, p) ==
  LET rs == IF HeldOverHold(t, p) THEN ACC ELSE OFF
  IN  [runState |-> rs, log |-> << setRelayState(rs) >>, settleAfter |-> 0]

\* switch (runState) on a Released edge: the state left in runState and the
\* patterns written by the setRelayState() calls, in order
\* settleAfter: how many of these calls precede delay(500), 0 without the delay
ReleasedRun(t, p) ==
  IF build = "v1"
  THEN LET rs == IF HeldOverHold(t, p) THEN ACC ELSE OFF
       IN  [runState |-> rs, log |-> << setRelayState(rs) >>, settleAfter |-> 0]
  ELSE IF HeldOverHold(t, p)
       THEN [runState |-> ACC,
             log |-> << setRelayState(OFF), setRelayState(ACC) >>,
             settleAfter |-> 1]
       ELSE [runState |-> OFF, log |-> << setRelayState(OFF) >>,
             settleAfter |-> 0]

\* variant: case START without its break, falling through to case RUN
ReleasedTargetFallThrough(rs) ==
  CASE rs = DISABLED -> OFF
    [] rs = OFF -> ACC
    [] rs = ACC -> OFF
    [] rs = START -> OFF

ReleasedTarget(rs) ==
  CASE rs = DISABLED -> OFF
    [] rs = OFF -> ACC
    [] rs = ACC -> OFF
    [] rs = START -> RUN

\* variant: OFF -> ACC only for a tap, a longer hold leaves OFF
OnReleasedOffTapOnly(rs, t, p) ==
  IF rs = RUN
  THEN ReleasedRun(t, p)
  ELSE IF rs = OFF /\ HeldOverHold(t, p)
       THEN [runState |-> OFF, log |-> << setRelayState(OFF) >>,
             settleAfter |-> 0]
       ELSE [runState |-> ReleasedTarget(rs),
             log |-> << setRelayState(ReleasedTarget(rs)) >>,
             settleAfter |-> 0]

\* variant: ACC -> OFF only "under HOLD_MS", a longer hold leaves ACC
OnReleasedAccTapOnly(rs, t, p) ==
  IF rs = RUN
  THEN ReleasedRun(t, p)
  ELSE IF rs = ACC /\ HeldOverHold(t, p)
       THEN [runState |-> ACC, log |-> << setRelayState(ACC) >>,
             settleAfter |-> 0]
       ELSE [runState |-> ReleasedTarget(rs),
             log |-> << setRelayState(ReleasedTarget(rs)) >>,
             settleAfter |-> 0]

OnReleased(rs, t, p) ==
  IF rs = RUN
  THEN ReleasedRun(t, p)
  ELSE [runState |-> ReleasedTarget(rs),
        log |-> << setRelayState(ReleasedTarget(rs)) >>,
        settleAfter |-> 0]

\* variant: the safety switch is not consulted
StartAllowedUnchecked(safe, t, p) == HeldOverHold(t, p)

\* variant: the check made only while the hold is within HOLD_MS / 2 of the
\* threshold, not in every later cycle
StartAllowedAtThreshold(safe, t, p) ==
  safe /\ HeldOverHold(t, p) /\ ~HeldOverHold(t, p + HOLD_MS \div 2)

\* the level-triggered check while the button stays pressed
StartAllowed(safe, t, p) == safe /\ HeldOverHold(t, p)

\* variant: the warning only once the hold has passed HOLD_MS
WarnsOnlyOverHold(safe, t, p) == ~safe /\ HeldOverHold(t, p)

\* the branch that prints the warning
WarnsUnsafe(safe, t, p) ==
  IF build = "v1" THEN ~(safe /\ HeldOverHold(t, p)) ELSE ~safe

\* variant: the starter limited by time, START ends 2 * HOLD_MS after the press
OnHeldCrankLimit(rs, sf, t, p) ==
  IF rs = ACC
  THEN IF StartAllowed(SafeToStart(sf), t, p)
       THEN [runState |-> START, log |-> << setRelayState(START) >>,
             warned |-> FALSE, safeRead |-> sf]
       ELSE [runState |-> rs, log |-> << >>,
             warned |-> WarnsUnsafe(SafeToStart(sf), t, p), safeRead |-> sf]
  ELSE IF rs = START /\ HeldOverHold(t, p + HOLD_MS)
       THEN [runState |-> RUN, log |-> << setRelayState(RUN) >>,
             warned |-> FALSE, safeRead |-> "none"]
       ELSE [runState |-> rs, log |-> << >>, warned |-> FALSE,
             safeRead |-> "none"]

\* variant: the held check without "if (runState == ACC)"
OnHeldAnyState(rs, sf, t, p) ==
  IF StartAllowed(SafeToStart(sf), t, p)
  THEN [runState |-> START, log |-> << setRelayState(START) >>,
        warned |-> FALSE, safeRead |-> sf]
  ELSE [runState |-> rs, log |-> << >>,
        warned |-> WarnsUnsafe(SafeToStart(sf), t, p), safeRead |-> sf]

OnHeld(rs, sf, t, p) ==
  IF rs = ACC
  THEN IF StartAllowed(SafeToStart(sf), t, p)
       THEN [runState |-> START, log |-> << setRelayState(START) >>,
             warned |-> FALSE, safeRead |-> sf]
       ELSE [runState |-> rs, log |-> << >>,
             warned |-> WarnsUnsafe(SafeToStart(sf), t, p), safeRead |-> sf]
  ELSE [runState |-> rs, log |-> << >>, warned |-> FALSE, safeRead |-> "none"]

\* if (runState == DISABLED) runState = OFF;
LeaveDisabled(rs) == IF rs = DISABLED THEN OFF ELSE rs

\* the whole "system is enabled" branch
EnabledBranch(rs0, prev, p, btn, sf, t) ==
  LET rs == LeaveDisabled(rs0)
  IN  IF btn # prev
      THEN IF IsReleased(btn)
           THEN LET r == OnReleased(rs, t, p)
                IN  [runState |-> r.runState, log |-> r.log, warned |-> FALSE,
                     safeRead |-> "none", pressTime |-> p,
                     previousButtonState |-> btn,
                     settleAfter |-> r.settleAfter]
           ELSE [runState |-> rs, log |-> << >>, warned |-> FALSE,
                 safeRead |-> "none", pressTime |-> t,
                 previousButtonState |-> btn, settleAfter |-> 0]
      ELSE IF IsPressed(btn)
           THEN LET h == OnHeld(rs, sf, t, p)
                IN  [runState |-> h.runState, log |-> h.log, warned |-> h.warned,
                     safeRead |-> h.safeRead, pressTime |-> p,
                     previousButtonState |-> btn, settleAfter |-> 0]
           ELSE [runState |-> rs, log |-> << >>, warned |-> FALSE,
                 safeRead |-> "none", pressTime |-> p,
                 previousButtonState |-> btn, settleAfter |-> 0]

\* variant: the else branch without its setRelayState() call
DisabledBranchNoRelay(rs, prev, p) ==
  [runState |-> DISABLED, log |-> << >>,
   warned |-> FALSE, safeRead |-> "none", pressTime |-> p,
   previousButtonState |-> prev, settleAfter |-> 0]

\* variant: the else branch without "runState = DISABLED"
DisabledBranchKeepsState(rs, prev, p) ==
  [runState |-> rs, log |-> << setRelayState(rs) >>,
   warned |-> FALSE, safeRead |-> "none", pressTime |-> p,
   previousButtonState |-> prev, settleAfter |-> 0]

\* variant: the else branch forgets the button, as if it were released
DisabledBranchForgetsButton(rs, prev, p) ==
  [runState |-> DISABLED, log |-> << setRelayState(DISABLED) >>,
   warned |-> FALSE, safeRead |-> "none", pressTime |-> p,
   previousButtonState |-> (IF build = "v1" THEN "LOW" ELSE Not(PUSH_BTN_PRESS)),
   settleAfter |-> 0]

\* the "else" branch: the gate returned false
DisabledBranch(rs, prev, p) ==
  [runState |-> DISABLED, log |-> << setRelayState(DISABLED) >>,
   warned |-> FALSE, safeRead |-> "none", pressTime |-> p,
   previousButtonState |-> prev, settleAfter |-> 0]

(***************************************************************************)
(* Blocking delays of a cycle                                              *)
(***************************************************************************)
\* playEnabledChime() (v2.0 only): delay(250) before the button is sampled
DelayBeforeSample(rs, en) ==
  IF build # "v1" /\ en /\ rs = DISABLED THEN CHIME_MS ELSE 0

\* delay(500) of RUN -> ACC, and delay(250) of playDisabledChime() (v2.0 only),
\* both after the point where an enabled cycle samples the button
DelayAfterSample(rs, en, after) ==
  IF en
  THEN IF after > 0 THEN SETTLE_MS ELSE 0
  ELSE IF build # "v1" /\ rs # DISABLED THEN CHIME_MS ELSE 0

(***************************************************************************)
(* State after setup()                                                     *)
(***************************************************************************)
\* variant: setup() without the halt on a missing PN53x board
SetupReturnedAlways == TRUE

\* setup() ran to its end; it does not when the PN53x board is not found
SetupReturned == ~halted

\* the relay pins: written RELAY_OFF by setup(), never configured when it halts
RelaysAfterSetup ==
  IF halted
  THEN [q \in RelayPins |-> "INPUT"]
  ELSE RelayPattern(RELAY_OFF, RELAY_OFF, RELAY_OFF)

InitProgram ==
  /\ build \in Builds
  /\ halted \in (IF build = "v2nfc" THEN BOOLEAN ELSE {FALSE})
  /\ runState = (IF build = "v1" THEN OFF ELSE DISABLED)
  /\ previousButtonState = (IF build = "v1" THEN "LOW" ELSE Not(PUSH_BTN_PRESS))
  /\ pressTime = 0
  /\ brightness = 0
  /\ fadeAmount = FADE_AMOUNT
  /\ tick = 0
  /\ relay = RelaysAfterSetup
  /\ now = 0
  /\ enabled = FALSE
  /\ safeRead = "none"
  /\ warned = FALSE
  /\ relayLog = << >>
  /\ settleAfter = 0
  /\ blocked = 0
  /\ nfcRead = NotRead

NoScene == [n |-> 0, t0 |-> 0]

Init ==
  /\ InitProgram
  /\ nfcUids = NFC_UIDS
  /\ scene = NoScene

(***************************************************************************)
(* One pass through loop()                                                 *)
(***************************************************************************)
Cycle(src, btn, sf, dt) ==
  /\ SetupReturned
  /\ LET t == now + dt
         en == systemEnabled(runState, src)
         r == IF en
              THEN EnabledBranch(runState, previousButtonState, pressTime,
                                 btn, sf, t)
              ELSE DisabledBranch(runState, previousButtonState, pressTime)
         led == setLedBrigtness(r.runState, brightness, fadeAmount, tick)
     IN  /\ dt >= blocked + LOOP_DELAY + DelayBeforeSample(runState, en)
         /\ now' = t
         /\ enabled' = en
         /\ nfcRead' = TokenRead(runState, src)
         /\ safeRead' = r.safeRead
         /\ runState' = r.runState
         /\ previousButtonState' = r.previousButtonState
         /\ pressTime' = r.pressTime
         /\ warned' = r.warned
         /\ relayLog' = r.log
         /\ settleAfter' = r.settleAfter
         /\ blocked' = DelayAfterSample(runState, en, r.settleAfter)
         /\ relay' = IF r.log = << >> THEN relay ELSE r.log[Len(r.log)]
         /\ brightness' = led.brightness
         /\ fadeAmount' = led.fadeAmount
         /\ tick' = led.tick
  /\ UNCHANGED << build, halted, nfcUids >>

\* a pass that ends within the span of time explored with free inputs
Loop(src, btn, sf, dt) ==
  /\ now + dt <= MaxNow
  /\ Cycle(src, btn, sf, dt)

Next ==
  \E src \in EnablementSources, btn \in Levels, sf \in Levels, dt \in Steps :
    Loop(src, btn, sf, dt) /\ UNCHANGED scene

Spec == Init /\ [][Next]_vars

(***************************************************************************)
(* The scripted session: boot with the gate false, gate true, a tap, a     *)
(* hold of 1200 ms with the safety input safe, a release, a press of       *)
(* 300 ms and its release                                                  *)
(***************************************************************************)
ScenarioSteps == {100, 300}
ScenarioHold == [long |-> 1200, short |-> 300]

\* one cycle of the session: the gate reads en, the button is pressed or not,
\* the safety input is safe (when safeOnly) or anything
Scripted(en, pressed, safeOnly, dt, nxt) ==
  \E src \in {x \in EnablementSources : systemEnabled(DISABLED, x) = en},
     sf \in {l \in Levels : ~safeOnly \/ SafeToStart(l)} :
    /\ Loop(src, IF pressed THEN PUSH_BTN_PRESS ELSE Not(PUSH_BTN_PRESS), sf, dt)
    /\ scene' = nxt

Gesture(n) == [n |-> n, t0 |-> scene.t0]
PressAt(n, t) == [n |-> n, t0 |-> t]

InitScenario ==
  /\ InitProgram
  /\ ~halted
  /\ nfcUids = NFC_UIDS
  /\ scene = NoScene

NextScenario ==
  \E dt \in ScenarioSteps :
    LET held == now + dt - scene.t0
    IN  \/ scene.n = 0 /\ Scripted(FALSE, FALSE, FALSE, dt, Gesture(1))
        \/ scene.n = 1 /\ Scripted(TRUE, FALSE, FALSE, dt, Gesture(2))
        \/ scene.n = 2 /\ Scripted(TRUE, TRUE, FALSE, dt, PressAt(3, now + dt))
        \/ scene.n = 3 /\ held < HOLD_MS
                       /\ Scripted(TRUE, TRUE, FALSE, dt, Gesture(3))
        \/ scene.n = 3 /\ held < HOLD_MS
                       /\ Scripted(TRUE, FALSE, FALSE, dt, Gesture(4))
        \/ scene.n = 4 /\ Scripted(TRUE, TRUE, TRUE, dt, PressAt(5, now + dt))
        \/ scene.n = 5 /\ held < ScenarioHold.long
                       /\ Scripted(TRUE, TRUE, TRUE, dt, Gesture(5))
        \/ scene.n = 5 /\ held = ScenarioHold.long
                       /\ Scripted(TRUE, TRUE, TRUE, dt, Gesture(6))
        \/ scene.n = 6 /\ Scripted(TRUE, FALSE, FALSE, dt, Gesture(7))
        \/ scene.n = 7 /\ Scripted(TRUE, TRUE, FALSE, dt, PressAt(8, now + dt))
        \/ scene.n = 8 /\ held < ScenarioHold.short
                       /\ Scripted(TRUE, TRUE, FALSE, dt, Gesture(8))
        \/ scene.n = 8 /\ held = ScenarioHold.short
                       /\ Scripted(TRUE, FALSE, FALSE, dt, Gesture(9))

SpecScenario == InitScenario /\ [][NextScenario]_vars

(***************************************************************************)
(* A press that is kept: the inputs are free until, in ACC with the button *)
(* down, the driver keeps it down with the gate true and the safety input  *)
(* safe from then on (scene.n = 1). The cycles keep coming.                *)
(***************************************************************************)
Keeping == [n |-> 1, t0 |-> 0]

\* one cycle with the gate true, the button pressed and the safety input safe
HeldSafely ==
  \E src \in {x \in EnablementSources : systemEnabled(runState, x)},
     sf \in {l \in Levels : SafeToStart(l)},
     dt \in Steps :
    Loop(src, PUSH_BTN_PRESS, sf, dt)

\* the capped clock leaves room for the hold to pass HOLD_MS
HoldRoom == \A d \in Steps : pressTime + HOLD_MS + d <= MaxNow

NextHold ==
  \/ scene.n = 0 /\ Next
  \/ /\ scene.n = 0
     /\ runState = ACC /\ enabled /\ previousButtonState = PUSH_BTN_PRESS
     /\ HoldRoom
     /\ HeldSafely
     /\ scene' = Keeping
  \/ scene.n = 1 /\ HeldSafely /\ UNCHANGED scene

SpecHold == Init /\ [][NextHold]_vars /\ WF_vars(NextHold)

(***************************************************************************)
(* The program with free inputs, observed at the cycle boundaries:         *)
(* scene.n is how far the run of states since the last DISABLED or OFF has *)
(* come along ACC (1), START (2); 0 when a state arrived out of that order *)
(***************************************************************************)
Flow(rs, n) ==
  CASE rs \in {DISABLED, OFF} -> 0
    [] rs = ACC -> 1
    [] rs = START -> IF n >= 1 THEN 2 ELSE 0
    [] rs = RUN -> IF n = 2 THEN 2 ELSE 0

NextOrder ==
  \E src \in EnablementSources, btn \in Levels, sf \in Levels, dt \in Steps :
    /\ Loop(src, btn, sf, dt)
    /\ scene' = [n |-> Flow(runState', scene.n), t0 |-> 0]

SpecOrder == Init /\ [][NextOrder]_vars

(***************************************************************************)
(* A long stay: the inputs are free, the cycles half of HOLD_MS long, for  *)
(* the span of MaxNow; if its last cycle enters OFF or ACC, then from then *)
(* on (scene.n = 1) the gate stays true and the button stays at the level  *)
(* last sampled, and loop() runs as fast as its delays allow: StayCycles   *)
(* cycles in OFF (more than one period of the fade), two rounds of the     *)
(* tick counter in ACC. scene.t0 counts the cycles of the stay and         *)
(* scene.last is the count at which the brightness last changed (-1: not   *)
(* yet in this stay).                                                      *)
(***************************************************************************)
StayCycles == 110

StayLimit == IF runState = ACC THEN 2 * TickMod ELSE StayCycles

Staying(k, l) == [n |-> 1, t0 |-> k, last |-> l]

\* one cycle with the gate true and the button level unchanged
Stay ==
  \E src \in {x \in EnablementSources : systemEnabled(runState, x)},
     sf \in Levels :
    Cycle(src, previousButtonState, sf,
          blocked + LOOP_DELAY + DelayBeforeSample(runState, TRUE))

LedSteps == {HOLD_MS \div 2}

\* one cycle with free inputs
FreeCycle ==
  \E src \in EnablementSources, btn \in Levels, sf \in Levels, dt \in LedSteps :
    Loop(src, btn, sf, dt)

NextLed ==
  \/ scene.n = 0 /\ FreeCycle /\ UNCHANGED scene
  \/ /\ scene.n = 0
     /\ FreeCycle
     /\ runState' # runState /\ runState' \in {OFF, ACC}
     /\ \A d \in LedSteps : now' + d > MaxNow
     /\ scene' = Staying(0, IF brightness' # brightness THEN 0 ELSE -1)
  \/ /\ scene.n = 1 /\ scene.t0 < StayLimit
     /\ Stay
     /\ scene' = Staying(scene.t0 + 1,
                         IF brightness' # brightness THEN scene.t0 + 1
                         ELSE scene.last)

SpecLed == Init /\ [][NextLed]_vars

(***************************************************************************)
(* The program with free inputs, the presses observed: scene.n tells where *)
(* the last Pressed edge was sampled (1: in a cycle that began in ACC,     *)
(* 2: in any other, 0: no press yet) and scene.t0 when                     *)
(***************************************************************************)
NextPress ==
  \E src \in EnablementSources, btn \in Levels, sf \in Levels, dt \in Steps :
    /\ Loop(src, btn, sf, dt)
    /\ scene' = IF enabled' /\ previousButtonState # PUSH_BTN_PRESS
                    /\ previousButtonState' = PUSH_BTN_PRESS
                THEN [n |-> IF runState = ACC THEN 1 ELSE 2, t0 |-> now']
                ELSE scene

SpecPress == Init /\ [][NextPress]_vars

(***************************************************************************)
(* The NFC build under other configured allow-lists and token lengths      *)
(***************************************************************************)
\* allow-lists to configure: the shipped one, one with a 7-byte identifier,
\* one whose second entry was left all zero
AllowLists ==
  { NFC_UIDS,
    << << 4, 175, 236, 194, 90, 19, 177 >> >>,
    << << 105, 175, 236, 194, 0, 0, 0 >>, ZeroUid >> }

\* reads of 4-byte and 7-byte tokens, and the read that detects nothing
GateReads ==
  Reads \cup { [success |-> TRUE, id |-> << 4, 175, 236, 194, 90, 19, 177 >>],
               [success |-> TRUE, id |-> << 4, 175, 236, 194, 90, 19, 0 >>] }

InitGate ==
  /\ InitProgram
  /\ build = "v2nfc"
  /\ nfcUids \in AllowLists
  /\ scene = NoScene

NextGate ==
  \E src \in GateReads, btn \in Levels, sf \in Levels :
    Loop(src, btn, sf, HOLD_MS) /\ UNCHANGED scene

SpecGate == InitGate /\ [][NextGate]_vars

(***************************************************************************)
(* Vocabulary of the properties                                            *)
(***************************************************************************)
AllRelaysOff == \A q \in RelayPins : ~Energized(q)
OnlyEnergized(S) == \A q \in RelayPins : Energized(q) <=> q \in S

\* the cycle of this step sampled the button, and what it saw
SampledPressed == enabled' /\ previousButtonState' = PUSH_BTN_PRESS
SampledReleased == enabled' /\ previousButtonState' # PUSH_BTN_PRESS
WasPressed == previousButtonState = PUSH_BTN_PRESS
ReleasedEdge == WasPressed /\ SampledReleased
PressedEdge == ~WasPressed /\ SampledPressed
\* the hold as the cycle of this step computes it
HoldNow == now' - pressTime

(***************************************************************************)
(* C1: in a cycle in which the gate reads false, RunState is DISABLED and  *)
(* all three relays are deenergized at the end of that cycle, whatever the *)
(* state at its start.                                                     *)
(***************************************************************************)
C1_DisabledCycle ==
  [][ (now' # now /\ ~enabled') => (runState' = DISABLED /\ AllRelaysOff') ]_vars

\* the gate has read false in the middle of a press, after the button had
\* driven the machine
C1_Witness ==
  /\ ~enabled /\ now > 0 /\ runState = DISABLED /\ AllRelaysOff
  /\ previousButtonState = PUSH_BTN_PRESS /\ pressTime > 0
  /\ Len(relayLog) = 1

(***************************************************************************)
(* C2: at every cycle boundary RunState in {ACC, START, RUN} implies that  *)
(* the gate returned true in the most recent cycle.                        *)
(***************************************************************************)
C2_PoweredImpliesEnabled == runState \in {ACC, START, RUN} => enabled

C2_Witness == runState = RUN /\ enabled /\ Energized("RELAY_IGN")

C4_StartOnlyFromSafeHold ==
  [][ (runState # START /\ runState' = START) =>
        /\ runState = ACC
        /\ enabled'
        /\ WasPressed /\ SampledPressed
        /\ pressTime' = pressTime
        /\ HoldNow > HOLD_MS
        /\ safeRead' \in Levels /\ SafeToStart(safeRead') ]_vars

\* START has just been entered from a hold
C4_Witness ==
  /\ runState = START /\ relayLog # << >> /\ safeRead \in Levels
  /\ now - pressTime > HOLD_MS

(***************************************************************************)
(* C5: in ACC with the gate enabled, every cycle that finds the button     *)
(* still Pressed and the safety input unsafe leaves RunState at ACC and    *)
(* the relays untouched and reports the warning, also beyond HOLD_MS; and  *)
(* a cycle that reports the warning changes neither RunState nor relays.   *)
(***************************************************************************)
C5_UnsafeHoldStaysAcc ==
  [][ /\ ( /\ runState = ACC /\ WasPressed /\ SampledPressed
           /\ safeRead' \in Levels /\ ~SafeToStart(safeRead') )
         => ( /\ runState' = ACC /\ relay' = relay /\ relayLog' = << >>
              /\ OnlyEnergized({"RELAY_ACC"})' /\ warned' )
      /\ warned' => (runState' = runState /\ relay' = relay) ]_vars

\* held beyond HOLD_MS while unsafe: still ACC, warned
C5_Witness ==
  /\ runState = ACC /\ warned /\ safeRead \in Levels /\ ~SafeToStart(safeRead)
  /\ now - pressTime > HOLD_MS /\ OnlyEnergized({"RELAY_ACC"})

(***************************************************************************)
(* C6: a cycle that starts in DISABLED and reads the gate enabled ends in  *)
(* OFF, whatever the button does.                                          *)
(***************************************************************************)
C6_DisabledToOff ==
  [][ (runState = DISABLED /\ now' # now /\ enabled') => runState' = OFF ]_vars

(***************************************************************************)
(* C7: in RUN with the gate enabled a Released edge ends the cycle in OFF  *)
(* when the hold is at most HOLD_MS and in ACC when it is above; any other *)
(* button sample leaves RunState at RUN.                                   *)
(***************************************************************************)
C7_RunRelease ==
  [][ (runState = RUN /\ now' # now /\ enabled') =>
        IF ReleasedEdge
        THEN runState' = (IF HoldNow > HOLD_MS THEN ACC ELSE OFF)
        ELSE runState' = RUN ]_vars

\* RUN -> ACC after a hold above HOLD_MS: the v2 sequence of two relay writes
\* (OFF pattern, then ACC pattern) happens on no other transition
C7_Witness ==
  /\ runState = ACC /\ enabled /\ Len(relayLog) = 2
  /\ now - pressTime > HOLD_MS
  /\ previousButtonState # PUSH_BTN_PRESS

(***************************************************************************)
(* C8: in START with the gate enabled a Released edge moves RunState to    *)
(* RUN with the relays at IGN only, for every hold and safety input; any   *)
(* other button sample leaves RunState at START.                           *)
(***************************************************************************)
C8_StartRelease ==
  [][ (runState = START /\ now' # now /\ enabled') =>
        IF ReleasedEdge
        THEN runState' = RUN /\ OnlyEnergized({"RELAY_IGN"})'
        ELSE runState' = START /\ relay' = relay ]_vars

\* RUN is entered in this cycle (a relay write happens only on entry)
C8_Witness ==
  /\ runState = RUN /\ relayLog # << >> /\ OnlyEnergized({"RELAY_IGN"})
  /\ previousButtonState # PUSH_BTN_PRESS

(***************************************************************************)
(* C9: in OFF with the gate enabled a Released edge moves RunState to ACC  *)
(* (relay ACC only) whatever the hold; a Pressed edge or an unchanged      *)
(* level leaves RunState at OFF.                                           *)
(***************************************************************************)
C9_OffRelease ==
  [][ (runState = OFF /\ now' # now /\ enabled') =>
        IF ReleasedEdge
        THEN runState' = ACC /\ OnlyEnergized({"RELAY_ACC"})'
        ELSE runState' = OFF /\ relay' = relay ]_vars

\* ACC entered by one relay write after a hold above HOLD_MS, in a build whose
\* RUN -> ACC writes twice: the release happened in OFF
C9_Witness ==
  /\ build # "v1" /\ runState = ACC /\ Len(relayLog) = 1
  /\ now - pressTime > HOLD_MS /\ OnlyEnergized({"RELAY_ACC"})

(***************************************************************************)
(* C10: in ACC with the gate enabled a Released edge moves RunState to OFF *)
(* with all relays deenergized, whatever the hold.                         *)
(***************************************************************************)
C10_AccRelease ==
  [][ (runState = ACC /\ ReleasedEdge) =>
        (runState' = OFF /\ AllRelaysOff') ]_vars

\* OFF entered by a release after a hold above HOLD_MS: RUN would have gone
\* to ACC, so the release happened in ACC
C10_Witness ==
  /\ runState = OFF /\ enabled /\ relayLog # << >>
  /\ now - pressTime > HOLD_MS /\ previousButtonState # PUSH_BTN_PRESS

(***************************************************************************)
(* Vocabulary of the token properties                                      *)
(***************************************************************************)
\* an identifier of 4 or 7 bytes as a fixed-length entry: zero bytes appended
AsEntry(id) == id \o SubSeq(ZeroUid, Len(id) + 1, 7)

\* a token was detected and its identifier is an entry of the allow-list
Listed(rd) ==
  /\ rd.success
  /\ \E i \in 1..Len(nfcUids) : nfcUids[i] = AsEntry(rd.id)

(***************************************************************************)
(* C11: token-presence variant. In ACC, START and RUN the gate returns     *)
(* true without reading the token, so DISABLED is entered only from OFF or *)
(* kept from DISABLED; in DISABLED and OFF the token is read every cycle,  *)
(* and a cycle in OFF without a listed token ends in DISABLED.             *)
(***************************************************************************)
C11_TokenLatch ==
  [][ (build = "v2nfc" /\ now' # now) =>
        /\ runState \in {ACC, START, RUN} =>
             (enabled' /\ ~nfcRead'.read /\ runState' # DISABLED)
        /\ runState' = DISABLED => runState \in {DISABLED, OFF}
        /\ runState \in {DISABLED, OFF} =>
             (nfcRead'.read /\ (enabled' <=> Listed(nfcRead')))
        /\ (runState = OFF /\ ~Listed(nfcRead')) =>
             runState' = DISABLED ]_vars

\* a cycle spent in RUN that did not read the token
C11_Witness ==
  /\ build = "v2nfc" /\ runState = RUN /\ enabled
  /\ ~nfcRead.read /\ relayLog = << >>

(***************************************************************************)
(* C12: token-presence variant, RunState in {DISABLED, OFF}: the gate      *)
(* returns true if and only if this cycle's read detected a token whose    *)
(* identifier is an entry of the allow-list, for every allow-list and      *)
(* every identifier length; a read that detects nothing gives false.       *)
(***************************************************************************)
C12_GateIffListed ==
  [][ (build = "v2nfc" /\ now' # now /\ nfcRead'.read) =>
        (enabled' <=> Listed(nfcRead')) ]_vars

(***************************************************************************)
(* C13 as stated: the relay driver is invoked exactly once in a cycle that *)
(* changes RunState and not at all in a cycle that does not.               *)
(***************************************************************************)
C13_OncePerTransition ==
  [][ now' # now =>
        Len(relayLog') = (IF runState' # runState THEN 1 ELSE 0) ]_vars

(***************************************************************************)
(* C13 amended: the relay driver is invoked once in every cycle in which   *)
(* the gate reads false, whether or not RunState changes; not at all for   *)
(* DISABLED -> OFF itself; and in an enabled cycle exactly when the button *)
(* changes RunState: once, or twice on the RUN -> ACC of v2.0.             *)
(***************************************************************************)
C13_RelayCalls ==
  [][ now' # now =>
        IF ~enabled'
        THEN Len(relayLog') = 1
        ELSE LET from == IF runState = DISABLED THEN OFF ELSE runState
             IN  IF runState' = from
                 THEN Len(relayLog') = 0
                 ELSE Len(relayLog') =
                        (IF build # "v1" /\ from = RUN /\ runState' = ACC
                         THEN 2 ELSE 1) ]_vars

\* a cycle spent in DISABLED (v2.0: no chime, so DISABLED before it too) that
\* still wrote the relays
C13_Witness ==
  /\ build # "v1" /\ ~enabled /\ now > 0 /\ runState = DISABLED
  /\ blocked = 0 /\ Len(relayLog) = 1

(***************************************************************************)
(* C14: at every cycle boundary RunState = START (START relay energized)   *)
(* implies that the latest button sample is Pressed; START is left only by *)
(* a Released edge, to RUN, or by the gate reading false, to DISABLED, and *)
(* by nothing that depends on elapsed time.                                *)
(***************************************************************************)
C14_StarterWhileHeld ==
  [][ /\ runState' = START =>
           (previousButtonState' = PUSH_BTN_PRESS /\ Energized("RELAY_START")')
      /\ Energized("RELAY_START")' => runState' = START
      /\ (runState = START /\ now' # now) =>
           runState' = (IF ~enabled' THEN DISABLED
                        ELSE IF ReleasedEdge THEN RUN ELSE START) ]_vars

\* the starter still engaged three HOLD_MS after the press
C14_Witness ==
  /\ runState = START /\ relayLog = << >> /\ Energized("RELAY_START")
  /\ previousButtonState = PUSH_BTN_PRESS
  /\ now - pressTime >= 3 * HOLD_MS

C16_HaltedAtBoot ==
  halted =>
    /\ build = "v2nfc"
    /\ runState = DISABLED
    /\ now = 0 /\ ~enabled /\ ~nfcRead.read
    /\ relayLog = << >>
    /\ AllRelaysOff

\* the board was not found: setup() is in its while (1)
C16_Witness == halted /\ build = "v2nfc" /\ runState = DISABLED /\ ~SetupReturned

(***************************************************************************)
(* C17: the RUN -> ACC sequence. A Released edge in RUN after a hold above *)
(* HOLD_MS, within the one cycle: setRelayState() writes the OFF pattern,  *)
(* delay(500) elapses, then runState is ACC and setRelayState() writes the *)
(* ACC pattern. After no digitalWrite() of the cycle are RELAY_ACC and     *)
(* RELAY_IGN energized together, the gate is not read during the sequence  *)
(* and the cycle ends in ACC with only RELAY_ACC on.                       *)
(***************************************************************************)
PatternOn(pat) == {q \in RelayPins : pat[q] = RELAY_ON}

SettleSequence ==
  /\ Len(relayLog') = 2
  /\ PatternOn(relayLog'[1]) = {}
  /\ settleAfter' = 1 /\ blocked' = SETTLE_MS
  /\ PatternOn(relayLog'[2]) = {"RELAY_ACC"}
  /\ \A i \in DOMAIN PinTrace(relay, relayLog') :
       ~ {"RELAY_ACC", "RELAY_IGN"} \subseteq PatternOn(PinTrace(relay, relayLog')[i])
  /\ (build = "v2nfc" => ~nfcRead'.read)
  /\ runState' = ACC /\ PatternOn(relay') = {"RELAY_ACC"}

C18_LevelTriggered ==
  /\ [][ (runState = ACC /\ WasPressed /\ SampledPressed) =>
           /\ safeRead' \in Levels
           /\ (HoldNow > HOLD_MS /\ SafeToStart(safeRead')) => runState' = START
       ]_vars
  /\ (scene.n = 1 ~> runState = START)

\* START entered while the button is kept down, two thresholds after the
\* press: the earlier cycles of this hold above HOLD_MS were unsafe
C18_Witness ==
  /\ scene.n = 1 /\ runState = START /\ relayLog # << >>
  /\ now - pressTime >= 2 * HOLD_MS
  /\ SafeToStart(safeRead)

(***************************************************************************)
(* C19: the button acts on edges only. In an enabled cycle that starts in  *)
(* OFF, ACC, START or RUN and samples the level of the previous sample,    *)
(* runState and the relays are unchanged and no relay is written, unless   *)
(* the state is ACC and the level Pressed. In a cycle with a Pressed edge, *)
(* from any state, the edge changes neither runState (which is what the    *)
(* top of the enabled branch made of it: OFF for DISABLED, else unchanged) *)
(* nor the relays; it records pressTime = millis().                        *)
(***************************************************************************)
C19_EdgesOnly ==
  [][ (now' # now /\ enabled') =>
        /\ ( /\ runState \in {OFF, ACC, START, RUN}
             /\ previousButtonState' = previousButtonState
             /\ ~(runState = ACC /\ SampledPressed) )
           => (runState' = runState /\ relay' = relay /\ relayLog' = << >>
                 /\ pressTime' = pressTime)
        /\ PressedEdge
           => ( /\ runState' = (IF runState = DISABLED THEN OFF ELSE runState)
                /\ relay' = relay /\ relayLog' = << >>
                /\ pressTime' = now' )
    ]_vars

\* a Pressed edge in RUN just sampled: the press time recorded, IGN still on
C19_Witness ==
  /\ runState = RUN /\ enabled /\ previousButtonState = PUSH_BTN_PRESS
  /\ pressTime = now /\ relayLog = << >>
  /\ OnlyEnergized({"RELAY_IGN"})

(***************************************************************************)
(* C20: the order of the enabled flow. From one cycle boundary to the next *)
(* runState becomes START only from ACC and RUN only from START; so every  *)
(* stay in START or RUN comes after ACC, then START, with no DISABLED or   *)
(* OFF in between.                                                         *)
(***************************************************************************)
C20_FlowOrder ==
  /\ [][ /\ (runState' = START /\ runState # START) => runState = ACC
         /\ (runState' = RUN /\ runState # RUN) => runState = START ]_vars
  /\ [](runState = START => scene.n = 2)
  /\ [](runState = RUN => scene.n = 2)

\* RUN entered in this cycle, at the end of ACC, START, RUN in order
C20_Witness ==
  /\ runState = RUN /\ scene.n = 2 /\ relayLog # << >>
  /\ enabled /\ now - pressTime > HOLD_MS

(***************************************************************************)
(* C21: the LED brightness is within 0..255 at the end of every cycle. In  *)
(* every cycle that ends in OFF, also the one that enters OFF with         *)
(* whatever brightness and fade direction the other states left, the       *)
(* brightness moves by fadeAmount (5 up or down) and is clamped to 0..255, *)
(* and the fade direction reverses exactly when the new brightness is 0 or *)
(* 255.                                                                    *)
(***************************************************************************)
Clamped(x) == IF x > PWM_MAX THEN PWM_MAX ELSE IF x < 0 THEN 0 ELSE x

C21_FadeInRange ==
  /\ [](brightness \in 0..PWM_MAX)
  /\ [](fadeAmount \in {FADE_AMOUNT, -FADE_AMOUNT})
  /\ [][ (now' # now /\ runState' = OFF) =>
           /\ brightness' = Clamped(brightness + fadeAmount)
           /\ fadeAmount' = (IF brightness' \in {0, PWM_MAX}
                             THEN -fadeAmount ELSE fadeAmount) ]_vars

\* a stay in OFF of a whole period of the fade, back at the lower bound
\* with the direction turned upwards
C21_Witness ==
  /\ scene.n = 1 /\ runState = OFF /\ scene.t0 >= 2 * (PWM_MAX \div FADE_AMOUNT)
  /\ brightness = 0 /\ fadeAmount = FADE_AMOUNT

(***************************************************************************)
(* C22: during a continuous stay in ACC the LED toggles between 255 and 0  *)
(* exactly once every FLASH_DELAY cycles, also across the rollover of the  *)
(* tick counter: after a toggle of the stay, the next one comes in the     *)
(* FLASH_DELAY-th cycle and not before. The tick counter advances by one   *)
(* (modulo 2^w) in the cycles that end in ACC and is left alone in all     *)
(* others.                                                                 *)
(***************************************************************************)
C22_FlashPeriod ==
  [][ /\ now' # now =>
           tick' = (IF runState' = ACC THEN (tick + 1) % TickMod ELSE tick)
      /\ (scene.n = 1 /\ runState = ACC /\ runState' = ACC /\ scene.last >= 0) =>
           /\ brightness' # brightness <=> scene'.t0 - scene.last = FLASH_DELAY
           /\ brightness' # brightness => brightness' \in {0, PWM_MAX}
    ]_vars

(***************************************************************************)
(* C23: a cycle in which the gate reads false does not sample the button:  *)
(* previousButtonState and pressTime are left as they were, for as long as *)
(* the system stays disabled. The first enabled cycle afterwards takes its *)
(* edge against that stored level: a level that differs from it is an edge *)
(* (Released: the switch runs from OFF, which ends in ACC; Pressed: the    *)
(* press time is recorded), a level equal to it is none.                   *)
(***************************************************************************)
C23_ButtonNotSampled ==
  [][ /\ (now' # now /\ ~enabled') =>
           /\ previousButtonState' = previousButtonState
           /\ pressTime' = pressTime
      /\ (now' # now /\ ~enabled /\ enabled') =>
           IF previousButtonState' = previousButtonState
           THEN runState' = OFF /\ pressTime' = pressTime /\ relayLog' = << >>
           ELSE IF previousButtonState' = PUSH_BTN_PRESS
                THEN runState' = OFF /\ pressTime' = now'
                ELSE runState' = ACC /\ pressTime' = pressTime
    ]_vars

\* disabled for a whole HOLD_MS with a Pressed sample and its press time
\* still stored
C23_Witness ==
  /\ ~enabled /\ runState = DISABLED /\ ~halted
  /\ previousButtonState = PUSH_BTN_PRESS
  /\ pressTime > 0 /\ now - pressTime >= HOLD_MS

(***************************************************************************)
(* C24: whenever runState becomes ACC the button level stored at the end   *)
(* of that cycle is Released. So the press during which START is entered   *)
(* began with a Pressed edge sampled while already in ACC, and the hold is *)
(* measured from that edge; a press that began in OFF or RUN (or any state *)
(* but ACC) never leads to START, however long it is held, until the       *)
(* button has been released and pressed again.                             *)
(***************************************************************************)
C24_HoldBeginsInAcc ==
  /\ [][ (runState' = ACC /\ runState # ACC) =>
           (enabled' /\ previousButtonState' # PUSH_BTN_PRESS) ]_vars
  /\ [](runState = START => (scene.n = 1 /\ pressTime = scene.t0))
  /\ [][ (scene.n = 2 /\ scene' = scene) => runState' # START ]_vars

\* START entered in this cycle, in a press whose edge was sampled in ACC
C24_Witness ==
  /\ runState = START /\ relayLog # << >> /\ scene.n = 1
  /\ pressTime = scene.t0 /\ now - scene.t0 > HOLD_MS
  /\ previousButtonState = PUSH_BTN_PRESS

====
